---- MODULE Spec2Model ----
(***************************************************************************)
(* A model of the python_frank_energie client: the FrankEnergie class      *)
(* (frank_energie.py), the response models (models.py) and the exception   *)
(* hierarchy (exceptions.py); and of the earlier client of the package     *)
(* frank_energie, kept beside it.                                          *)
(*                                                                         *)
(* JSON values are records tagged by the field t:                          *)
(*   [t |-> "None"]    Python None / JSON null                              *)
(*   [t |-> "Absent"]  a key that is missing from a dict                    *)
(*   [t |-> "dict"...] a JSON object, one field per key it may hold         *)
(*   [t |-> "list", v |-> <<...>>]  a JSON array                            *)
(*   [t |-> "tok"...]  a token string, tagged with the place it came from   *)
(* A message string is a sequence of pieces <<head>> or <<head, tail>>:     *)
(* the string is their concatenation, so == compares whole sequences and   *)
(* startswith compares the first piece.                                    *)
(***************************************************************************)
EXTENDS Integers, Sequences, FiniteSets, TLC

VARIABLES
    _auth,           \* FrankEnergie._auth: NoneV or an Authentication
    _session,        \* FrankEnergie._session: "None", "caller" or "own"
    _close_session,  \* FrankEnergie._close_session
    sessions,        \* per session the client created: how often it was closed
    supplied,        \* the constructor's clientsession, and how often the client closed it
    tasks,           \* per caller task: the public call it is awaiting, if any
    last,            \* the call that ended last, until the next request is sent
    fn,              \* pure-function checks: the function applied
    arg,             \* pure-function checks: its argument
    out,             \* pure-function checks: its outcome
    legacy           \* the frank_energie.FrankEnergie object and its last call

vars ==
    <<_auth, _session, _close_session, sessions, supplied, tasks, last, fn, arg, out,
      legacy>>

clientVars == <<_auth, _session, _close_session, sessions, supplied, tasks, last>>
pureVars == <<fn, arg, out>>

-----------------------------------------------------------------------------
(* Bounds *)

\* server responses are drawn from generations 1..MaxGen of token pairs
MaxGen == 1
\* longest error list handed to _handle_errors on its own
MaxErrs == 2
\* instants are counted in ticks; a UTC day has TicksPerDay of them
TicksPerDay == 2
\* the market price of an entry is 1..MaxPrice, in units of 0.0001
MaxPrice == 2
\* the client creates at most MaxSessions sessions of its own
MaxSessions == 2
\* longest price series
MaxLen == 3
\* the legacy client's close() reaches its session at most MaxCloses times
MaxCloses == 3

-----------------------------------------------------------------------------
(* Values *)

NoneV == [t |-> "None"]
AbsentV == [t |-> "Absent"]

List(s) == [t |-> "list", v |-> s]
Str(s) == [t |-> "str", s |-> s]

\* a token string; src 0 is the constructor's arguments, src g > 0 the g-th
\* generation of server tokens; key is the data key it was sent under
Token(src, key, field) == [t |-> "tok", src |-> src, key |-> key, field |-> field]

\* dict.get(key): a missing key reads as None
Get(d, key) == IF d[key] = AbsentV THEN NoneV ELSE d[key]

\* Python truthiness of the JSON values used here
Truthy(v) ==
    CASE v.t = "None" -> FALSE
      [] v.t = "Absent" -> FALSE
      [] v.t = "list" -> Len(v.v) > 0
      [] v.t = "str" -> v.s # ""
      [] v.t = "dict" -> \E k \in DOMAIN v : k # "t" /\ v[k] # AbsentV
      [] OTHER -> TRUE

-----------------------------------------------------------------------------
(* Outcomes of a call: it returns a value or raises an exception *)

Return(v) == [kind |-> "return", exc |-> "", msg |-> <<>>, val |-> v]
Raise(e, m) == [kind |-> "raise", exc |-> e, msg |-> m, val |-> NoneV]

NoOutcome == [kind |-> "none", exc |-> "", msg |-> <<>>, val |-> NoneV]

\* exceptions.py: the classes derived from FrankEnergieException
FrankEnergieExceptions ==
    {"FrankEnergieException", "AuthRequiredException", "AuthException",
     "RequestException", "NoSuitableSitesFoundError", "LoginError",
     "NetworkError", "SmartTradingNotEnabledException", "ConnectionException"}

IsFrankEnergieException(e) == e \in FrankEnergieExceptions

-----------------------------------------------------------------------------
(* Messages of the server's error list *)

Equals(message, s) == message = <<s>>
StartsWith(message, s) == Len(message) >= 1 /\ message[1] = s

ErrorEntry(message) == [t |-> "dict", message |-> message]
\* an entry of the error list that has no "message" key
ErrorEntryNoMessage == [t |-> "dict"]
HasKey(d, key) == key \in DOMAIN d

\* the heads the code compares against, and one it does not know
KnownHeads ==
    {"user-error:password-invalid", "user-error:auth-not-authorised",
     "user-error:auth-required", "Graphql validation error",
     "No marketprices found for segment", "No connections found for user",
     "user-error:smart-trading-not-enabled"}

Messages ==
    {<<h>> : h \in KnownHeads} \cup {<<h, " X">> : h \in KnownHeads}
        \cup {<<"help me">>}

\* the entries of an error list: a message, or an entry without "message"
ErrorEntries == {ErrorEntry(m) : m \in Messages} \cup {ErrorEntryNoMessage}

SeqsUpTo(S, n) == UNION {[1..k -> S] : k \in 0..n}

-----------------------------------------------------------------------------
(* A response body: {"errors": ..., "data": ...} *)

Body(errors, data) == [t |-> "dict", errors |-> errors, data |-> data]

\* {}: the keys of "data" the models read, each missing (AbsentV); it is also
\* the default of data.get("data", {})
EmptyData ==
    [t |-> "dict", login |-> AbsentV, renewToken |-> AbsentV, me |-> AbsentV,
     monthSummary |-> AbsentV, invoices |-> AbsentV,
     marketPricesElectricity |-> AbsentV, marketPricesGas |-> AbsentV,
     customerMarketPrices |-> AbsentV, periodUsageAndCosts |-> AbsentV,
     smartBatteries |-> AbsentV, userSites |-> AbsentV, user |-> AbsentV,
     actualMeterReadings |-> AbsentV]

\* {key: v}
DataWith(key, v) == [EmptyData EXCEPT ![key] = v]
\* {"login": l, "renewToken": r}
AuthData(l, r) == [EmptyData EXCEPT !.login = l, !.renewToken = r]

\* {"authToken": ..., "refreshToken": ...} as sent under data[key]
TokenPair(g, key) ==
    [t |-> "dict", authToken |-> Token(g, key, "authToken"),
     refreshToken |-> Token(g, key, "refreshToken")]
\* the same object without its "authToken"
TokenPairNoAuth(g, key) ==
    [t |-> "dict", authToken |-> AbsentV,
     refreshToken |-> Token(g, key, "refreshToken")]
EmptyDict == [t |-> "dict", authToken |-> AbsentV, refreshToken |-> AbsentV]

-----------------------------------------------------------------------------
(* FrankEnergie._handle_errors *)

\* a mutant: the branch raises, as its commented-out line did
OnNoMarketPricesRaises(message) ==
    Raise("FrankEnergieException", <<"Request failed: %s">> \o message)

\* the branch of "No marketprices found for segment": a bare return
OnNoMarketPrices(message) == Return(NoneV)

\* a mutant: the branch is missing, the message falls to the final else
OnSmartTradingNotEnabledMissing == Raise("AuthException", <<"Authorization error">>)

\* the branch of "user-error:smart-trading-not-enabled"
OnSmartTradingNotEnabled ==
    Raise("SmartTradingNotEnabledException",
          <<"Smart trading is not enabled for this user.">>)

\* one pass of the loop body: raise, return, or go on to the next error
HandleError(error) ==
    IF ~HasKey(error, "message") THEN Raise("KeyError", <<"message">>)
    ELSE LET message == error.message IN
         IF Equals(message, "user-error:password-invalid")
           THEN Raise("AuthException", <<"Invalid password">>)
         ELSE IF Equals(message, "user-error:auth-not-authorised")
           THEN Raise("AuthException", <<"Not authorized">>)
         ELSE IF Equals(message, "user-error:auth-required")
           THEN Raise("AuthRequiredException", <<"Authentication required">>)
         ELSE IF Equals(message, "Graphql validation error")
           THEN Raise("FrankEnergieException",
                      <<"Request failed: Graphql validation error">>)
         ELSE IF StartsWith(message, "No marketprices found for segment")
           THEN OnNoMarketPrices(message)
         ELSE IF StartsWith(message, "No connections found for user")
           THEN Raise("FrankEnergieException", <<"Request failed: %s">> \o message)
         ELSE IF Equals(message, "user-error:smart-trading-not-enabled")
           THEN OnSmartTradingNotEnabled
         ELSE Raise("AuthException", <<"Authorization error">>)

RECURSIVE HandleErrorsFrom(_, _)
HandleErrorsFrom(errors, i) ==
    IF i > Len(errors) THEN Return(NoneV)
    ELSE LET r == HandleError(errors[i]) IN
         IF r.kind = "continue" THEN HandleErrorsFrom(errors, i + 1) ELSE r

\* response.get("errors") on None is an AttributeError
_handle_errors(response) ==
    IF response = NoneV THEN Raise("AttributeError", <<"get">>)
    ELSE LET errors == Get(response, "errors") IN
         IF Truthy(errors) THEN HandleErrorsFrom(errors.v, 1) ELSE Return(NoneV)

-----------------------------------------------------------------------------
(* models.py *)

\* errors[0]["message"]
FirstMessage(errors) ==
    IF HasKey(errors.v[1], "message")
      THEN [ok |-> TRUE, message |-> errors.v[1].message]
      ELSE [ok |-> FALSE, message |-> <<>>]

\* a mutant: the error list is looked at only when the payload holds no data
ModelErrorsDataFirst(data, exc) ==
    IF data = NoneV THEN Raise("AttributeError", <<"get">>)
    ELSE LET errors == Get(data, "errors") IN
         IF Truthy(errors) /\ (data.data = AbsentV \/ data.data = NoneV)
           THEN IF FirstMessage(errors).ok
                  THEN Raise(exc, FirstMessage(errors).message)
                  ELSE Raise("KeyError", <<"message">>)
         ELSE IF data.data = AbsentV THEN Return(EmptyData)
         ELSE Return(data.data)

\* the head every from_dict shares: a non-empty error list raises the
\* model's exception with the first message; otherwise data.get("data", {})
ModelErrors(data, exc) ==
    IF data = NoneV THEN Raise("AttributeError", <<"get">>)
    ELSE LET errors == Get(data, "errors") IN
         IF Truthy(errors)
           THEN IF FirstMessage(errors).ok
                  THEN Raise(exc, FirstMessage(errors).message)
                  ELSE Raise("KeyError", <<"message">>)
         ELSE IF data.data = AbsentV THEN Return(EmptyData)
         ELSE Return(data.data)

\* data.get("data", {}).get(key): .get on None is an AttributeError
ModelHead(data, exc) ==
    LET root == ModelErrors(data, exc) IN
    IF root.kind = "return" /\ root.val = NoneV
      THEN Raise("AttributeError", <<"get">>)
      ELSE root

\* the dataclass Authentication
Authentication(authToken, refreshToken) ==
    [t |-> "Authentication", authToken |-> authToken, refreshToken |-> refreshToken]

\* a mutant: `payload = renew_payload or login_payload`
Authentication_from_dict_renew_first(data) ==
    LET head == ModelHead(data, "AuthException") IN
    IF head.kind = "raise" THEN head
    ELSE LET login_payload == Get(head.val, "login")
             renew_payload == Get(head.val, "renewToken")
         IN IF ~Truthy(login_payload) /\ ~Truthy(renew_payload)
              THEN Raise("AuthException", <<"Unexpected response">>)
            ELSE LET payload == IF Truthy(renew_payload) THEN renew_payload
                                                         ELSE login_payload
                 IN Return(Authentication(Get(payload, "authToken"),
                                          Get(payload, "refreshToken")))

Authentication_from_dict(data) ==
    LET head == ModelHead(data, "AuthException") IN
    IF head.kind = "raise" THEN head
    ELSE LET login_payload == Get(head.val, "login")
             renew_payload == Get(head.val, "renewToken")
         IN IF ~Truthy(login_payload) /\ ~Truthy(renew_payload)
              THEN Raise("AuthException", <<"Unexpected response">>)
            ELSE LET payload == IF Truthy(login_payload) THEN login_payload
                                                         ELSE renew_payload
                 IN Return(Authentication(Get(payload, "authToken"),
                                          Get(payload, "refreshToken")))

\* User, MonthSummary: the payload's fields are copied with .get
Object(class, payload) == [t |-> class, payload |-> payload]

User_from_dict(data) ==
    LET head == ModelHead(data, "RequestException") IN
    IF head.kind = "raise" THEN head
    ELSE LET payload == Get(head.val, "me") IN
         IF ~Truthy(payload) THEN Raise("RequestException", <<"Unexpected response">>)
         ELSE Return(Object("User", payload))

MonthSummary_from_dict(data) ==
    LET head == ModelHead(data, "RequestException") IN
    IF head.kind = "raise" THEN head
    ELSE LET payload == Get(head.val, "monthSummary") IN
         IF ~Truthy(payload) THEN Raise("RequestException", <<"Unexpected response">>)
         ELSE Return(Object("MonthSummary", payload))

\* Invoices.Invoice.from_dict: data.get on None is an AttributeError, and
\* parser.parse(None) a TypeError
Invoice_from_dict(data) ==
    IF data = NoneV THEN Raise("AttributeError", <<"get">>)
    ELSE IF Get(data, "StartDate") = NoneV THEN Raise("TypeError", <<"parse">>)
    ELSE Return(Object("Invoice", data))

Invoices_from_dict(data) ==
    LET head == ModelHead(data, "RequestException") IN
    IF head.kind = "raise" THEN head
    ELSE LET payload == Get(head.val, "invoices") IN
         IF ~Truthy(payload) THEN Raise("RequestException", <<"Unexpected response">>)
         ELSE LET previous == Invoice_from_dict(Get(payload, "previousPeriodInvoice"))
                  current == Invoice_from_dict(Get(payload, "currentPeriodInvoice"))
                  upcoming == Invoice_from_dict(Get(payload, "upcomingPeriodInvoice"))
              IN IF previous.kind = "raise" THEN previous
                 ELSE IF current.kind = "raise" THEN current
                 ELSE IF upcoming.kind = "raise" THEN upcoming
                 ELSE Return(Object("Invoices", payload))

-----------------------------------------------------------------------------
(* models.py: Price, PriceData, MarketPrices *)

\* an ISO-8601 string with the UTC designator, naming the instant tick
TimeStr(tick) == [t |-> "iso", tick |-> tick]

\* dateutil's parser.parse: None is a TypeError, a string that is no date a
\* ParserError, a date string the aware datetime it names
parse(timestr) ==
    CASE timestr = NoneV -> Raise("TypeError", <<"parse">>)
      [] timestr.t = "iso" -> Return(timestr.tick)
      [] OTHER -> Raise("ParserError", <<"parse">>)

\* a JSON number, counted in units of 0.0001
Num(n) == [t |-> "num", n |-> n]

\* an entry of a price list as the server sends it
PriceDict(from, till, marketPrice, marketPriceTax, sourcingMarkupPrice, energyTaxPrice) ==
    [t |-> "dict", from |-> from, till |-> till, marketPrice |-> marketPrice,
     marketPriceTax |-> marketPriceTax,
     sourcingMarkupPrice |-> sourcingMarkupPrice,
     energyTaxPrice |-> energyTaxPrice]

\* data[key]: a missing key is a KeyError
Item(data, key) ==
    IF data[key] = AbsentV THEN Raise("KeyError", <<key>>) ELSE Return(data[key])

\* Price.__init__: the keys are read in the order of the assignments, and the
\* two dates are parsed as they are read
Price(data) ==
    LET from == Item(data, "from")
        date_from == IF from.kind = "raise" THEN from ELSE parse(from.val)
        till == Item(data, "till")
        date_till == IF till.kind = "raise" THEN till ELSE parse(till.val)
        market_price == Item(data, "marketPrice")
        market_price_tax == Item(data, "marketPriceTax")
        sourcing_markup_price == Item(data, "sourcingMarkupPrice")
        energy_tax_price == Item(data, "energyTaxPrice")
    IN CASE date_from.kind = "raise" -> date_from
         [] date_till.kind = "raise" -> date_till
         [] market_price.kind = "raise" -> market_price
         [] market_price_tax.kind = "raise" -> market_price_tax
         [] sourcing_markup_price.kind = "raise" -> sourcing_markup_price
         [] energy_tax_price.kind = "raise" -> energy_tax_price
         [] OTHER ->
              Return([t |-> "Price", date_from |-> date_from.val,
                      date_till |-> date_till.val,
                      market_price |-> market_price.val,
                      market_price_tax |-> market_price_tax.val,
                      sourcing_markup_price |-> sourcing_markup_price.val,
                      energy_tax_price |-> energy_tax_price.val])

\* a mutant: the interval is closed at date_till
for_now_closed(hour, now) == hour.date_from <= now /\ now <= hour.date_till

\* Price.for_now: date_from <= now < date_till
for_now(hour, now) == hour.date_from <= now /\ now < hour.date_till

\* now.replace(hour=0, minute=0, second=0, microsecond=0)
day_start(now) == now - (now % TicksPerDay)

\* Price.for_today: day_end = day_start + timedelta(days=1)
for_today(hour, now) ==
    LET day_end == day_start(now) + TicksPerDay IN
    hour.date_from >= day_start(now) /\ hour.date_till <= day_end

\* Price.total, in units of 0.0001: round(..., 4) leaves a sum of such
\* amounts as it is
total(hour) ==
    hour.market_price.n + hour.market_price_tax.n + hour.sourcing_markup_price.n
        + hour.energy_tax_price.n

\* [Price(price) for price in price_data]: the first entry that fails ends
\* the comprehension
RECURSIVE Prices(_, _, _)
Prices(price_data, i, done) ==
    IF i > Len(price_data) THEN Return(done)
    ELSE LET price == Price(price_data[i]) IN
         IF price.kind = "raise" THEN price
         ELSE Prices(price_data, i + 1, Append(done, price.val))

\* the object PriceData; price_data is its list of Price
PriceDataOf(price_data) == [t |-> "PriceData", price_data |-> price_data]

\* PriceData.__init__: without data the (empty) class attribute is the series;
\* otherwise one Price per entry of the list, in its order
PriceData(price_data) ==
    IF price_data = NoneV THEN Return(PriceDataOf(<<>>))
    ELSE LET prices == Prices(price_data.v, 1, <<>>) IN
         IF prices.kind = "raise" THEN prices
         ELSE Return(PriceDataOf(prices.val))

\* a mutant: the sum keeps the right operand first
PriceData__add__reversed(self, b) == PriceDataOf(b.price_data \o self.price_data)

\* PriceData.__add__
PriceData__add__(self, b) == PriceDataOf(self.price_data \o b.price_data)

\* PriceData.all
all(self) == self.price_data

\* a mutant: an entry counts for today when it starts today
today_by_start(self, now) ==
    SelectSeq(self.price_data,
              LAMBDA hour : hour.date_from >= day_start(now)
                              /\ hour.date_from < day_start(now) + TicksPerDay)

\* PriceData.today
today(self, now) == SelectSeq(self.price_data, LAMBDA hour : for_today(hour, now))

\* Price.for_future: the entry's hour of the day against the clock's hour of
\* the day
for_future(hour, now) == (hour.date_from % TicksPerDay) > (now % TicksPerDay)

\* PriceData.get_future_prices
get_future_prices(self, now) ==
    SelectSeq(self.price_data, LAMBDA hour : for_future(hour, now))

\* PriceData.current_hour: [...][0]
current_hour(self, now) ==
    LET hours == SelectSeq(self.price_data, LAMBDA hour : for_now(hour, now)) IN
    IF Len(hours) = 0 THEN Raise("IndexError", <<"list index out of range">>)
    ELSE Return(hours[1])

\* min(hours, key=total) from the i-th entry on: a later entry replaces the
\* best one only when its total is smaller
RECURSIVE MinFrom(_, _, _)
MinFrom(hours, i, best) ==
    IF i > Len(hours) THEN best
    ELSE MinFrom(hours, i + 1, IF total(hours[i]) < total(best) THEN hours[i] ELSE best)

\* max(hours, key=total) from the i-th entry on
RECURSIVE MaxFrom(_, _, _)
MaxFrom(hours, i, best) ==
    IF i > Len(hours) THEN best
    ELSE MaxFrom(hours, i + 1, IF total(hours[i]) > total(best) THEN hours[i] ELSE best)

\* a mutant: the minimum over the whole series
today_min_of_all(self, now) ==
    IF Len(self.price_data) = 0
      THEN Raise("ValueError", <<"min() arg is an empty sequence">>)
      ELSE Return(MinFrom(self.price_data, 2, self.price_data[1]))

\* PriceData.today_min
today_min(self, now) ==
    LET hours == today(self, now) IN
    IF Len(hours) = 0 THEN Raise("ValueError", <<"min() arg is an empty sequence">>)
    ELSE Return(MinFrom(hours, 2, hours[1]))

\* PriceData.today_max
today_max(self, now) ==
    LET hours == today(self, now) IN
    IF Len(hours) = 0 THEN Raise("ValueError", <<"max() arg is an empty sequence">>)
    ELSE Return(MaxFrom(hours, 2, hours[1]))

\* sum(hour.total for hour in hours)
RECURSIVE SumTotals(_, _)
SumTotals(hours, i) ==
    IF i > Len(hours) THEN 0 ELSE total(hours[i]) + SumTotals(hours, i + 1)

\* round(num / den): the nearest integer, the even one of two equally near
RoundDiv(num, den) ==
    LET q == num \div den
        r == num % den
    IN CASE 2 * r < den -> q
         [] 2 * r > den -> q + 1
         [] OTHER -> IF q % 2 = 0 THEN q ELSE q + 1

\* PriceData.today_avg, in units of 0.00001: round(sum / len, 5)
today_avg(self, now) ==
    LET hours == today(self, now) IN
    IF Len(hours) = 0 THEN Raise("ZeroDivisionError", <<"division by zero">>)
    ELSE Return(RoundDiv(10 * SumTotals(hours, 1), Len(hours)))

\* MarketPrices.from_dict: `not payload` is tested on data itself, so a null
\* data is an unexpected response, and a key data does not hold reads as None
MarketPrices_from_dict(data) ==
    LET root == ModelErrors(data, "RequestException") IN
    IF root.kind = "raise" THEN root
    ELSE IF ~Truthy(root.val)
      THEN Raise("RequestException", <<"Unexpected response">>)
    ELSE LET electricity == PriceData(Get(root.val, "marketPricesElectricity"))
             gas == PriceData(Get(root.val, "marketPricesGas"))
         IN IF electricity.kind = "raise" THEN electricity
            ELSE IF gas.kind = "raise" THEN gas
            ELSE Return([t |-> "MarketPrices",
                         marketPricesElectricity |-> electricity.val,
                         marketPricesGas |-> gas.val])

-----------------------------------------------------------------------------
(* The client before any call: FrankEnergie.__init__ *)

Tasks == {"t1", "t2"}

\* a task that awaits no call; a task inside a call holds the request it sent
\* posts: the session.post calls made for it so far
Idle == [op |-> "idle", variables |-> NoneV, headers |-> NoneV,
         authenticated |-> FALSE, posts |-> 0]

\* what came back for a request: the transport's outcome and the JSON body
NoResponse == [status |-> "", body |-> NoneV]

\* no call has ended yet
NoCall == [task |-> "", op |-> "", outcome |-> NoOutcome,
           response |-> NoResponse, sent |-> FALSE, variables |-> NoneV,
           headers |-> NoneV, authenticated |-> FALSE, posts |-> 0,
           closed |-> FALSE]

\* no frank_energie.FrankEnergie object was constructed
NoLegacy ==
    [_session |-> "None", _close_session |-> "unset", closed |-> 0,
     supplied_closed |-> 0, op |-> "", variables |-> NoneV,
     response |-> NoResponse, outcome |-> NoOutcome]

\* a mutant: the client takes every session for its own
__init__OwnsSession(clientsession, auth_token, refresh_token) ==
    /\ _close_session = TRUE
    /\ _auth = IF auth_token # NoneV \/ refresh_token # NoneV
                 THEN Authentication(auth_token, refresh_token)
                 ELSE NoneV
    /\ _session = clientsession
    /\ sessions = <<>>
    /\ supplied = [session |-> clientsession, closed |-> 0]

\* __init__(clientsession, auth_token, refresh_token)
__init__(clientsession, auth_token, refresh_token) ==
    /\ _close_session = FALSE
    /\ _auth = IF auth_token # NoneV \/ refresh_token # NoneV
                 THEN Authentication(auth_token, refresh_token)
                 ELSE NoneV
    /\ _session = clientsession
    /\ sessions = <<>>
    /\ supplied = [session |-> clientsession, closed |-> 0]

-----------------------------------------------------------------------------
(* The functions of models.py and _handle_errors applied to drawn inputs *)

ErrorLists(n) == {List(s) : s \in SeqsUpTo(ErrorEntries, n)}

\* what may stand under data["login"] or data["renewToken"]
TokenPayloads(key) ==
    {AbsentV, NoneV, EmptyDict}
        \cup {TokenPair(g, key) : g \in 1..MaxGen}
        \cup {TokenPairNoAuth(g, key) : g \in 1..MaxGen}

UserPayload == [t |-> "dict", connectionsStatus |-> Str("READY")]
MonthSummaryPayload == [t |-> "dict", lastMeterReadingDate |-> Str("2023-01-01")]
EmptyObject == [t |-> "dict", connectionsStatus |-> AbsentV]

InvoiceDicts ==
    {AbsentV, NoneV,
     [t |-> "dict", StartDate |-> Str("2023-03-01"), TotalAmount |-> Str("1.0")],
     [t |-> "dict", StartDate |-> AbsentV, TotalAmount |-> Str("1.0")]}

InvoicesPayloads ==
    {[t |-> "dict", previousPeriodInvoice |-> p, currentPeriodInvoice |-> c,
      upcomingPeriodInvoice |-> u] : p \in InvoiceDicts, c \in InvoiceDicts,
                                     u \in InvoiceDicts}

\* one hour of prices, and the same entry without its "from"
HourDict == PriceDict(TimeStr(TicksPerDay), TimeStr(TicksPerDay + 1), Num(1), Num(1), Num(0), Num(0))
HourDictNoFrom == PriceDict(AbsentV, TimeStr(TicksPerDay + 1), Num(1), Num(1), Num(0), Num(0))

\* what may stand under data["marketPricesElectricity"] or data["marketPricesGas"]
PriceLists ==
    {AbsentV, NoneV, List(<<>>), List(<<HourDict>>), List(<<HourDict, HourDictNoFrom>>)}

ModelData(f) ==
    {AbsentV, NoneV} \cup
    CASE f = "Authentication.from_dict" ->
           {AuthData(l, r) :
                l \in TokenPayloads("login"), r \in TokenPayloads("renewToken")}
      [] f = "User.from_dict" ->
           {DataWith("me", m) :
                m \in {AbsentV, NoneV, EmptyObject, UserPayload}}
      [] f = "MonthSummary.from_dict" ->
           {DataWith("monthSummary", m) :
                m \in {AbsentV, NoneV, EmptyObject, MonthSummaryPayload}}
      [] f = "Invoices.from_dict" ->
           {DataWith("invoices", i) :
                i \in {AbsentV, NoneV} \cup InvoicesPayloads}
      [] f = "MarketPrices.from_dict" ->
           {DataWith("me", UserPayload)} \cup
           {[EmptyData EXCEPT !.marketPricesElectricity = e, !.marketPricesGas = g] :
                e \in PriceLists, g \in PriceLists}

ModelFunctions ==
    {"Authentication.from_dict", "User.from_dict", "MonthSummary.from_dict",
     "Invoices.from_dict"}

PureInputs(f) ==
    IF f = "_handle_errors"
      THEN {NoneV} \cup {Body(e, AbsentV) :
                            e \in {AbsentV, NoneV} \cup ErrorLists(MaxErrs)}
      ELSE {Body(e, d) : e \in {AbsentV, NoneV} \cup ErrorLists(1), d \in ModelData(f)}

InitPure ==
    /\ __init__("None", NoneV, NoneV)
    /\ tasks = [t \in Tasks |-> Idle]
    /\ last = NoCall
    /\ fn \in {"_handle_errors", "MarketPrices.from_dict"} \cup ModelFunctions
    /\ arg \in PureInputs(fn)
    /\ out = NoOutcome
    /\ legacy = NoLegacy

Apply_handle_errors ==
    /\ fn = "_handle_errors" /\ out = NoOutcome
    /\ out' = _handle_errors(arg)
    /\ UNCHANGED <<fn, arg, clientVars, legacy>>

ApplyAuthentication_from_dict ==
    /\ fn = "Authentication.from_dict" /\ out = NoOutcome
    /\ out' = Authentication_from_dict(arg)
    /\ UNCHANGED <<fn, arg, clientVars, legacy>>

ApplyUser_from_dict ==
    /\ fn = "User.from_dict" /\ out = NoOutcome
    /\ out' = User_from_dict(arg)
    /\ UNCHANGED <<fn, arg, clientVars, legacy>>

ApplyMonthSummary_from_dict ==
    /\ fn = "MonthSummary.from_dict" /\ out = NoOutcome
    /\ out' = MonthSummary_from_dict(arg)
    /\ UNCHANGED <<fn, arg, clientVars, legacy>>

ApplyInvoices_from_dict ==
    /\ fn = "Invoices.from_dict" /\ out = NoOutcome
    /\ out' = Invoices_from_dict(arg)
    /\ UNCHANGED <<fn, arg, clientVars, legacy>>

ApplyMarketPrices_from_dict ==
    /\ fn = "MarketPrices.from_dict" /\ out = NoOutcome
    /\ out' = MarketPrices_from_dict(arg)
    /\ UNCHANGED <<fn, arg, clientVars, legacy>>

NextPure ==
    \/ Apply_handle_errors
    \/ ApplyMarketPrices_from_dict
    \/ ApplyAuthentication_from_dict
    \/ ApplyUser_from_dict
    \/ ApplyMonthSummary_from_dict
    \/ ApplyInvoices_from_dict

SpecPure == InitPure /\ [][NextPure]_vars

-----------------------------------------------------------------------------
(* The properties of PriceData applied to drawn series at a drawn instant *)

\* the instants of the series: from the last tick of one UTC day to the first
\* tick of the day after the next; the clock stands in the day in between
Times == (TicksPerDay - 1)..(2 * TicksPerDay + 1)
Nows == TicksPerDay..(2 * TicksPerDay - 1)

\* the intervals an entry may cover: at most a day long
Intervals ==
    {<<from, till>> \in Times \X Times : from < till /\ till - from <= TicksPerDay}

\* for the aggregates: two hours of the clock's day and one that starts the
\* day before
AggregateIntervals ==
    {<<TicksPerDay, TicksPerDay + 1>>, <<TicksPerDay + 1, 2 * TicksPerDay>>,
     <<TicksPerDay - 1, TicksPerDay + 1>>}

\* the entries the server sends for a set of intervals and market prices
HourDicts(intervals, prices) ==
    {PriceDict(TimeStr(i[1]), TimeStr(i[2]), Num(m), Num(1), Num(0), Num(0)) :
        i \in intervals, m \in prices}

\* the argument of PriceData(...): None, or a list of at most n entries
SeriesData(dicts, n) == {NoneV} \cup {List(l) : l \in SeqsUpTo(dicts, n)}

PriceFunctions ==
    {"PriceData.today", "PriceData.current_hour", "PriceData.today_min",
     "PriceData.today_max", "PriceData.today_avg", "PriceData.__add__",
     "PriceData.get_future_prices"}

\* self and b as constructed from price_data and b_data, and the clock
PriceArg(price_data, b_data, now) ==
    [price_data |-> price_data, b_data |-> b_data,
     self |-> PriceData(price_data).val, b |-> PriceData(b_data).val,
     now |-> now]

PriceInputs(f) ==
    CASE f \in {"PriceData.today", "PriceData.current_hour",
                "PriceData.get_future_prices"} ->
           {PriceArg(d, NoneV, now) :
               d \in SeriesData(HourDicts(Intervals, {1}), MaxLen), now \in Nows}
      [] f \in {"PriceData.today_min", "PriceData.today_max", "PriceData.today_avg"} ->
           {PriceArg(d, NoneV, now) :
               d \in SeriesData(HourDicts(AggregateIntervals, 1..MaxPrice), MaxLen),
               now \in Nows}
      [] f = "PriceData.__add__" ->
           {PriceArg(d, e, TicksPerDay) :
               d \in SeriesData(HourDicts(AggregateIntervals, {1}), MaxLen),
               e \in SeriesData(HourDicts(AggregateIntervals, {1}), MaxLen)}

InitPrices ==
    /\ __init__("None", NoneV, NoneV)
    /\ tasks = [t \in Tasks |-> Idle]
    /\ last = NoCall
    /\ fn \in PriceFunctions
    /\ arg \in PriceInputs(fn)
    /\ out = NoOutcome
    /\ legacy = NoLegacy

ApplyToday ==
    /\ fn = "PriceData.today" /\ out = NoOutcome
    /\ out' = Return(today(arg.self, arg.now))
    /\ UNCHANGED <<fn, arg, clientVars, legacy>>

ApplyCurrent_hour ==
    /\ fn = "PriceData.current_hour" /\ out = NoOutcome
    /\ out' = current_hour(arg.self, arg.now)
    /\ UNCHANGED <<fn, arg, clientVars, legacy>>

ApplyToday_min ==
    /\ fn = "PriceData.today_min" /\ out = NoOutcome
    /\ out' = today_min(arg.self, arg.now)
    /\ UNCHANGED <<fn, arg, clientVars, legacy>>

ApplyToday_max ==
    /\ fn = "PriceData.today_max" /\ out = NoOutcome
    /\ out' = today_max(arg.self, arg.now)
    /\ UNCHANGED <<fn, arg, clientVars, legacy>>

ApplyToday_avg ==
    /\ fn = "PriceData.today_avg" /\ out = NoOutcome
    /\ out' = today_avg(arg.self, arg.now)
    /\ UNCHANGED <<fn, arg, clientVars, legacy>>

Apply__add__ ==
    /\ fn = "PriceData.__add__" /\ out = NoOutcome
    /\ out' = Return(PriceData__add__(arg.self, arg.b))
    /\ UNCHANGED <<fn, arg, clientVars, legacy>>

ApplyGet_future_prices ==
    /\ fn = "PriceData.get_future_prices" /\ out = NoOutcome
    /\ out' = Return(get_future_prices(arg.self, arg.now))
    /\ UNCHANGED <<fn, arg, clientVars, legacy>>

NextPrices ==
    \/ ApplyToday
    \/ ApplyCurrent_hour
    \/ ApplyToday_min
    \/ ApplyToday_max
    \/ ApplyToday_avg
    \/ Apply__add__
    \/ ApplyGet_future_prices

SpecPrices == InitPrices /\ [][NextPrices]_vars

-----------------------------------------------------------------------------
(* The models of the client that models.py does not hold *)

\* the models the client imports that models.py does not define (Me,
\* UserSites, EnergyConsumption, MarketPrices.from_userprices_dict,
\* PeriodUsageAndCosts, SmartBatteries):
\* errors raise, a missing or null key is an unexpected response, otherwise the
\* value object is built
Other_from_dict(data, key, class) ==
    LET head == ModelHead(data, "RequestException") IN
    IF head.kind = "raise" THEN head
    ELSE LET payload == Get(head.val, key) IN
         IF ~Truthy(payload) THEN Raise("RequestException", <<"Unexpected response">>)
         ELSE Return(Object(class, payload))

-----------------------------------------------------------------------------
(* frank_energie.py: the client *)

is_authenticated(a) == a # NoneV /\ a.authToken # NoneV

\* the operations that check `self._auth is None or not self.is_authenticated`
TokenGuarded == {"renew_token", "meter_readings", "month_summary", "invoices", "ouser"}
\* the operations that check `self._auth is None`, then `not self.is_authenticated`
TwiceGuarded == {"UserEnergyConsumption", "fail_user"}
\* the operations that check `self._auth is None` only
AuthGuarded ==
    {"me", "UserSites", "user", "user_prices", "period_usage_and_costs",
     "smart_batteries", "smart_battery_sessions"}

\* the check a public operation makes before it builds its query
Guard(op, a) ==
    IF op \in TokenGuarded /\ (a = NoneV \/ ~is_authenticated(a))
      THEN Raise("AuthRequiredException", <<"Authentication is required.">>)
    ELSE IF op \in AuthGuarded \cup TwiceGuarded /\ a = NoneV
      THEN Raise("AuthRequiredException", <<>>)
    ELSE IF op \in TwiceGuarded /\ ~is_authenticated(a)
      THEN Raise("AuthRequiredException", <<"Authentication is required.">>)
    ELSE Return(NoneV)

\* a mutant: only the username is tested
LoginGuardUsernameOnly(username, password) ==
    IF ~Truthy(username)
      THEN Raise("ValueError", <<"Username and password must be provided.">>)
      ELSE Return(NoneV)

\* login: `if not username or not password`
LoginGuard(username, password) ==
    IF ~Truthy(username) \/ ~Truthy(password)
      THEN Raise("ValueError", <<"Username and password must be provided.">>)
      ELSE Return(NoneV)

\* the variables of the query; only RenewToken's are kept
Variables(op, a) ==
    IF op = "renew_token"
      THEN [t |-> "dict", authToken |-> a.authToken, refreshToken |-> a.refreshToken]
      ELSE NoneV

\* a mutant: the header is sent only with a token
HeadersIfToken(a) ==
    IF is_authenticated(a) THEN [t |-> "Bearer", token |-> a.authToken] ELSE NoneV

\* _query: the Authorization header
Headers(a) == IF a # NoneV THEN [t |-> "Bearer", token |-> a.authToken] ELSE NoneV

\* _query up to session.post: query.to_dict() is an AttributeError for
\* smart_battery_sessions, whose query is a plain dict
QueryPrepare(op) ==
    IF op = "smart_battery_sessions"
      THEN Raise("AttributeError", <<"to_dict">>)
      ELSE Return(NoneV)

\* the FrankEnergieException _query turns a timeout, ClientError or KeyError into
RequestFailed == Raise("FrankEnergieException", <<"Request failed: ">>)

\* _query from the response on: raise_for_status, resp.json(), _handle_errors
\* and the status check; a status other than 200 falls off the end (None)
QueryResult(response) ==
    CASE response.status \in {"ClientError", "TimeoutError"} -> RequestFailed
      [] response.status = "JSONDecodeError" -> Raise("JSONDecodeError", <<>>)
      [] OTHER ->
           LET h == _handle_errors(response.body) IN
           IF h.kind = "raise"
             THEN IF h.exc = "KeyError" THEN RequestFailed ELSE h
           ELSE IF response.status = "200" THEN Return(response.body)
           ELSE Return(NoneV)

\* a mutant: renewal keeps the stored object and overwrites its authToken
StoreAuthTokenOnly(old, parsed) ==
    IF old = NoneV THEN parsed ELSE [old EXCEPT !.authToken = parsed.authToken]

\* `self._auth = Authentication.from_dict(...)`: the pair is replaced whole
StoreAuth(old, parsed) == parsed

\* a mutant: an authentication error drops the stored authentication
EndedLoggedOut(outcome, a) ==
    [outcome |-> outcome, auth |-> IF outcome.exc = "AuthException" THEN NoneV ELSE a]

\* how a call ends: its outcome and the authentication the client then holds
Ended(outcome, a) == [outcome |-> outcome, auth |-> a]

\* a mutant: login stores whatever data.login holds before it looks at the
\* errors of the response
LoginResultStoresFirst(q, a) ==
    IF q.kind = "raise" THEN Ended(q, a)
    ELSE LET response == q.val
             parsed == Authentication_from_dict(response)
             assigns == response # NoneV /\ response.data # AbsentV
                            /\ response.data # NoneV
         IN IF response # NoneV /\ response.data = AbsentV
              THEN Ended(Raise("KeyError", <<"data">>), a)
            ELSE IF assigns /\ parsed.kind = "raise"
              THEN Ended(parsed,
                         IF Truthy(Get(response.data, "login"))
                           THEN Authentication(
                                    Get(Get(response.data, "login"), "authToken"),
                                    Get(Get(response.data, "login"), "refreshToken"))
                           ELSE a)
            ELSE LET a1 == IF assigns THEN StoreAuth(a, parsed.val) ELSE a
                     h == _handle_errors(response)
                 IN IF h.kind = "raise" THEN Ended(h, a1)
                    ELSE Ended(Return(a1), a1)

\* login after `await self._query(query)`
LoginResult(q, a) ==
    IF q.kind = "raise" THEN Ended(q, a)
    ELSE LET response == q.val
             parsed == Authentication_from_dict(response)
             assigns == response # NoneV /\ response.data # AbsentV
                            /\ response.data # NoneV
         IN IF response # NoneV /\ response.data = AbsentV
              THEN Ended(Raise("KeyError", <<"data">>), a)
            ELSE IF assigns /\ parsed.kind = "raise" THEN Ended(parsed, a)
            ELSE LET a1 == IF assigns THEN StoreAuth(a, parsed.val) ELSE a
                     h == _handle_errors(response)
                 IN IF h.kind = "raise" THEN Ended(h, a1)
                    ELSE Ended(Return(a1), a1)

\* renew_token after `await self._query(query)`
RenewTokenResult(q, a) ==
    IF q.kind = "raise" THEN Ended(q, a)
    ELSE LET parsed == Authentication_from_dict(q.val) IN
         IF parsed.kind = "raise" THEN Ended(parsed, a)
         ELSE Ended(Return(StoreAuth(a, parsed.val)), StoreAuth(a, parsed.val))

\* month_summary wraps whatever _query or from_dict raises
MonthSummaryResult(q) ==
    LET r == IF q.kind = "raise" THEN q ELSE MonthSummary_from_dict(q.val) IN
    IF r.kind = "raise"
      THEN Raise("FrankEnergieException", <<"Failed to fetch month summary: ">>)
      ELSE r

\* period_usage_and_costs, smart_batteries: _handle_errors(response), then
\* from_dict(response["data"])
DataKeyResult(q, key, class) ==
    IF q.kind = "raise" THEN q
    ELSE LET h == _handle_errors(q.val) IN
         IF h.kind = "raise" THEN h
         ELSE IF q.val.data = AbsentV THEN Raise("KeyError", <<"data">>)
         ELSE Other_from_dict(Body(AbsentV, q.val.data), key, class)

\* a data call after `await self._query(query)`
DataResult(op, q) ==
    CASE op = "month_summary" -> MonthSummaryResult(q)
      [] op = "invoices" -> IF q.kind = "raise" THEN q ELSE Invoices_from_dict(q.val)
      [] op \in {"user", "fail_user", "ouser"} ->
           IF q.kind = "raise" THEN q ELSE User_from_dict(q.val)
      [] op = "meter_readings" ->
           IF q.kind = "raise" THEN q
           ELSE Other_from_dict(q.val, "actualMeterReadings", "EnergyConsumption")
      [] op = "UserEnergyConsumption" ->
           IF q.kind = "raise" THEN q
           ELSE Other_from_dict(q.val, "user", "EnergyConsumption")
      [] op = "UserSites" ->
           IF q.kind = "raise" THEN q
           ELSE Other_from_dict(q.val, "userSites", "UserSites")
      [] op = "prices" -> IF q.kind = "raise" THEN q ELSE MarketPrices_from_dict(q.val)
      [] op = "me" -> IF q.kind = "raise" THEN q ELSE Other_from_dict(q.val, "me", "Me")
      [] op = "user_prices" ->
           IF q.kind = "raise" THEN q
           ELSE Other_from_dict(q.val, "customerMarketPrices", "MarketPrices")
      [] op = "period_usage_and_costs" ->
           DataKeyResult(q, "periodUsageAndCosts", "PeriodUsageAndCosts")
      [] op = "smart_batteries" -> DataKeyResult(q, "smartBatteries", "SmartBatteries")

\* a public operation after its await: the outcome and the stored authentication
Result(op, q, a) ==
    CASE op = "login" -> LoginResult(q, a)
      [] op = "renew_token" -> RenewTokenResult(q, a)
      [] OTHER -> Ended(DataResult(op, q), a)

-----------------------------------------------------------------------------
(* What the server may answer *)

WireErrors ==
    {AbsentV} \cup
    {List(<<ErrorEntry(m)>>) :
        m \in {<<"user-error:password-invalid">>, <<"help me">>,
               <<"No marketprices found for segment", " X">>}}

WireTokens(key) ==
    {AbsentV, NoneV} \cup {TokenPair(g, key) : g \in 1..MaxGen}
        \cup {TokenPairNoAuth(g, key) : g \in 1..MaxGen}

InvoiceDict == [t |-> "dict", StartDate |-> Str("2023-03-01"), TotalAmount |-> Str("1.0")]

WirePayloads(op) ==
    CASE op \in {"login", "renew_token"} ->
           {AuthData(l, r) : l \in WireTokens("login"), r \in WireTokens("renewToken")}
      [] op = "month_summary" ->
           {DataWith("monthSummary", m) : m \in {NoneV, MonthSummaryPayload}}
      [] op = "invoices" ->
           {DataWith("invoices", i) :
               i \in {NoneV,
                      [t |-> "dict", previousPeriodInvoice |-> InvoiceDict,
                       currentPeriodInvoice |-> InvoiceDict,
                       upcomingPeriodInvoice |-> InvoiceDict],
                      [t |-> "dict", previousPeriodInvoice |-> InvoiceDict,
                       currentPeriodInvoice |-> InvoiceDict,
                       upcomingPeriodInvoice |-> NoneV]}}
      [] op \in {"user", "me", "fail_user", "ouser"} ->
           {DataWith("me", m) : m \in {NoneV, UserPayload}}
      [] op = "meter_readings" ->
           {DataWith("actualMeterReadings", m) : m \in {NoneV, UserPayload}}
      [] op = "UserEnergyConsumption" ->
           {DataWith("user", m) : m \in {NoneV, UserPayload}}
      [] op = "UserSites" ->
           {DataWith("userSites", m) : m \in {NoneV, UserPayload}}
      [] op = "prices" ->
           {EmptyData,
            [EmptyData EXCEPT !.marketPricesElectricity = List(<<>>),
                              !.marketPricesGas = List(<<>>)]}
      [] op = "user_prices" ->
           {DataWith("customerMarketPrices", m) : m \in {NoneV, UserPayload}}
      [] op = "period_usage_and_costs" ->
           {DataWith("periodUsageAndCosts", m) : m \in {NoneV, UserPayload}}
      [] op = "smart_batteries" ->
           {DataWith("smartBatteries", m) : m \in {NoneV, UserPayload}}

Wire(status, body) == [status |-> status, body |-> body]

\* a transport failure, a malformed body, a JSON null, a success other than
\* 200 (whose data is never read), or a 200 with a JSON object
Responses(op) ==
    {Wire(s, NoneV) : s \in {"ClientError", "TimeoutError", "JSONDecodeError", "200"}}
        \cup {Wire("201", Body(e, AbsentV)) : e \in WireErrors}
        \cup {Wire("200", Body(e, d)) :
                 e \in WireErrors, d \in {AbsentV, NoneV} \cup WirePayloads(op)}

-----------------------------------------------------------------------------
(* The client's actions *)

Init ==
    /\ \E clientsession \in {"None", "caller"},
          auth_token \in {NoneV, Token(0, "ctor", "authToken")},
          refresh_token \in {NoneV, Token(0, "ctor", "refreshToken")} :
            __init__(clientsession, auth_token, refresh_token)
    /\ tasks = [t \in Tasks |-> Idle]
    /\ last = NoCall
    /\ fn = "" /\ arg = NoneV /\ out = NoOutcome
    /\ legacy = NoLegacy

\* the record of a call that has ended
\* authenticated: is_authenticated when the call was made
\* posts: the session.post calls it made; closed: whether it closed a session
EndedCall(t, op, outcome, response, sent, variables, headers, authenticated) ==
    [task |-> t, op |-> op, outcome |-> outcome,
     response |-> response, sent |-> sent, variables |-> variables,
     headers |-> headers, authenticated |-> authenticated,
     posts |-> IF sent THEN 1 ELSE 0, closed |-> FALSE]

\* a public operation up to its await: the guard, then _query creates the
\* session when there is none, builds the headers and posts the query
Begin(t, op, guard) ==
    /\ tasks[t] = Idle
    /\ IF guard.kind = "raise"
         THEN /\ last' = EndedCall(t, op, guard, NoResponse, FALSE, NoneV, NoneV,
                                        is_authenticated(_auth))
              /\ UNCHANGED <<_session, _close_session, sessions, tasks>>
         ELSE /\ IF _session = "None"
                   THEN /\ Len(sessions) < MaxSessions
                        /\ _session' = "own" /\ _close_session' = TRUE
                        /\ sessions' = Append(sessions, 0)
                   ELSE UNCHANGED <<_session, _close_session, sessions>>
              /\ IF QueryPrepare(op).kind = "raise"
                   THEN /\ last' = EndedCall(t, op, QueryPrepare(op), NoResponse,
                                             FALSE, NoneV, Headers(_auth),
                                             is_authenticated(_auth))
                        /\ UNCHANGED tasks
                   ELSE /\ tasks' = [tasks EXCEPT ![t] =
                                        [op |-> op, variables |-> Variables(op, _auth),
                                         headers |-> Headers(_auth),
                                         authenticated |-> is_authenticated(_auth),
                                         posts |-> 1]]
                        /\ last' = NoCall
    /\ UNCHANGED <<_auth, supplied, pureVars, legacy>>

login(t, username, password) == Begin(t, "login", LoginGuard(username, password))
renew_token(t) == Begin(t, "renew_token", Guard("renew_token", _auth))
meter_readings(t) == Begin(t, "meter_readings", Guard("meter_readings", _auth))
UserEnergyConsumption(t) ==
    Begin(t, "UserEnergyConsumption", Guard("UserEnergyConsumption", _auth))
fail_user(t) == Begin(t, "fail_user", Guard("fail_user", _auth))
ouser(t) == Begin(t, "ouser", Guard("ouser", _auth))
UserSites(t) == Begin(t, "UserSites", Guard("UserSites", _auth))
month_summary(t) == Begin(t, "month_summary", Guard("month_summary", _auth))
invoices(t) == Begin(t, "invoices", Guard("invoices", _auth))
me(t) == Begin(t, "me", Guard("me", _auth))
user(t) == Begin(t, "user", Guard("user", _auth))
prices(t) == Begin(t, "prices", Guard("prices", _auth))
user_prices(t) == Begin(t, "user_prices", Guard("user_prices", _auth))
period_usage_and_costs(t) ==
    Begin(t, "period_usage_and_costs", Guard("period_usage_and_costs", _auth))
smart_batteries(t) == Begin(t, "smart_batteries", Guard("smart_batteries", _auth))
smart_battery_sessions(t) ==
    Begin(t, "smart_battery_sessions", Guard("smart_battery_sessions", _auth))

\* a mutant: a request that timed out is posted once more
ResumeRetrying(t, response) ==
    IF response.status = "TimeoutError" /\ tasks[t].posts < 2
      THEN /\ tasks' = [tasks EXCEPT ![t].posts = @ + 1]
           /\ UNCHANGED <<_auth, _session, _close_session, sessions, supplied, last,
                          pureVars, legacy>>
      ELSE /\ LET r == Result(tasks[t].op, QueryResult(response), _auth) IN
                /\ _auth' = r.auth
                /\ last' = [EndedCall(t, tasks[t].op, r.outcome, response, TRUE,
                                      tasks[t].variables, tasks[t].headers,
                                      tasks[t].authenticated)
                               EXCEPT !.posts = tasks[t].posts]
           /\ tasks' = [tasks EXCEPT ![t] = Idle]
           /\ UNCHANGED <<_session, _close_session, sessions, supplied, pureVars, legacy>>

\* the response arrives: the rest of _query and of the operation run to the
\* end; whatever came back, nothing is posted again
Resume(t, response) ==
    /\ LET r == Result(tasks[t].op, QueryResult(response), _auth) IN
         /\ _auth' = r.auth
         /\ last' = [EndedCall(t, tasks[t].op, r.outcome, response, TRUE,
                               tasks[t].variables, tasks[t].headers,
                               tasks[t].authenticated)
                        EXCEPT !.posts = tasks[t].posts]
    /\ tasks' = [tasks EXCEPT ![t] = Idle]
    /\ UNCHANGED <<_session, _close_session, sessions, supplied, pureVars, legacy>>

Receive(t) ==
    /\ tasks[t].op # "idle"
    /\ \E response \in Responses(tasks[t].op) : Resume(t, response)

\* the record of a close() that has returned
ClosedCall(closed) ==
    [EndedCall("", "close", Return(NoneV), NoResponse, FALSE, NoneV, NoneV,
               is_authenticated(_auth)) EXCEPT !.closed = closed]

\* `await self._session.close()`: the session the client holds is closed
SessionClose ==
    IF _session = "own"
      THEN /\ sessions' = [sessions EXCEPT ![Len(sessions)] = @ + 1]
           /\ UNCHANGED supplied
      ELSE /\ supplied' = [supplied EXCEPT !.closed = @ + 1]
           /\ UNCHANGED sessions

\* a mutant: close() closes the session and keeps the reference and the flag
closeKeepsSession ==
    /\ IF _close_session /\ _session # "None"
         THEN /\ SessionClose
              /\ UNCHANGED <<_session, _close_session>>
              /\ last' = ClosedCall(TRUE)
         ELSE /\ UNCHANGED <<_session, _close_session, sessions, supplied>>
              /\ last' = ClosedCall(FALSE)
    /\ UNCHANGED <<_auth, tasks, pureVars, legacy>>

\* a mutant: close() drops the reference and keeps the flag
closeKeepsFlag ==
    /\ IF _close_session /\ _session # "None"
         THEN /\ SessionClose
              /\ _session' = "None"
              /\ UNCHANGED _close_session
              /\ last' = ClosedCall(TRUE)
         ELSE /\ UNCHANGED <<_session, _close_session, sessions, supplied>>
              /\ last' = ClosedCall(FALSE)
    /\ UNCHANGED <<_auth, tasks, pureVars, legacy>>

\* close(): the session is closed when the client created it, the reference
\* and the flag are dropped; otherwise nothing happens
close ==
    /\ IF _close_session /\ _session # "None"
         THEN /\ SessionClose
              /\ _session' = "None"
              /\ _close_session' = FALSE
              /\ last' = ClosedCall(TRUE)
         ELSE /\ UNCHANGED <<_session, _close_session, sessions, supplied>>
              /\ last' = ClosedCall(FALSE)
    /\ UNCHANGED <<_auth, tasks, pureVars, legacy>>

\* a username or password: given, empty or missing
Credentials == {Str("a"), Str(""), NoneV}

\* the caller awaits each call before it makes the next: one task
Caller == "t1"

Next ==
    \/ \E username \in Credentials, password \in Credentials :
          login(Caller, username, password)
    \/ renew_token(Caller)
    \/ meter_readings(Caller)
    \/ month_summary(Caller)
    \/ UserEnergyConsumption(Caller)
    \/ fail_user(Caller)
    \/ ouser(Caller)
    \/ UserSites(Caller)
    \/ invoices(Caller)
    \/ me(Caller)
    \/ user(Caller)
    \/ prices(Caller)
    \/ user_prices(Caller)
    \/ period_usage_and_costs(Caller)
    \/ smart_batteries(Caller)
    \/ smart_battery_sessions(Caller)
    \/ Receive(Caller)
    \/ close

Spec == Init /\ [][Next]_vars

\* two tasks run login and renew_token on one client at the same time; the
\* server answers with a token pair under "login", under "renewToken" or under
\* both, or the request fails
ConcResponses ==
    {Wire("ClientError", NoneV)} \cup
    UNION {{Wire("200", Body(AbsentV, AuthData(TokenPair(g, "login"), AbsentV))),
            Wire("200", Body(AbsentV, AuthData(AbsentV, TokenPair(g, "renewToken")))),
            Wire("200", Body(AbsentV, AuthData(TokenPair(g, "login"),
                                               TokenPair(g, "renewToken"))))} :
           g \in 1..MaxGen}

ReceiveConc(t) ==
    /\ tasks[t].op # "idle"
    /\ \E response \in ConcResponses : Resume(t, response)

NextConc ==
    \/ \E t \in Tasks : login(t, Str("a"), Str("b"))
    \/ \E t \in Tasks : renew_token(t)
    \/ \E t \in Tasks : ReceiveConc(t)

SpecConc == Init /\ [][NextConc]_vars

-----------------------------------------------------------------------------
(* frank_energie/frank_energie.py and frank_energie/models.py: the legacy   *)
(* client.  legacy._close_session is "unset" while the object has no such  *)
(* attribute; legacy.closed counts the close() calls on the session the    *)
(* client created, legacy.supplied_closed those on the caller's session.   *)

\* frank_energie.FrankEnergie.__init__(clientsession): only _session is set
Legacy__init__(clientsession) ==
    legacy = [NoLegacy EXCEPT !._session = clientsession]

\* {}
LegacyNoData == [t |-> "dict"]

\* {"marketPricesElectricity": e, "marketPricesGas": g}
LegacyData(e, g) ==
    [t |-> "dict", marketPricesElectricity |-> e, marketPricesGas |-> g]

\* {"data": data}
LegacyBody(data) == [t |-> "dict", data |-> data]

\* PriceData.__init__ of frank_energie/models.py: one Price per entry, with
\* no default; None cannot be iterated and {} has no entries
LegacyPriceData(price_data) ==
    CASE price_data = NoneV ->
           Raise("TypeError", <<"'NoneType' object is not iterable">>)
      [] price_data.t = "dict" -> Return(PriceDataOf(<<>>))
      [] OTHER ->
           LET series == Prices(price_data.v, 1, <<>>) IN
           IF series.kind = "raise" THEN series
           ELSE Return(PriceDataOf(series.val))

\* PriceData(data['data'][key] if data['data'] else {})
LegacySeries(body, key) ==
    LET data == Item(body, "data") IN
    IF data.kind = "raise" THEN data
    ELSE IF ~Truthy(data.val) THEN LegacyPriceData(LegacyNoData)
    ELSE LET price_data == Item(data.val, key) IN
         IF price_data.kind = "raise" THEN price_data
         ELSE LegacyPriceData(price_data.val)

\* except (asyncio.TimeoutError, ClientError, KeyError): raise ValueError
LegacyExcept(outcome) ==
    IF outcome.kind = "raise" /\ outcome.exc \in {"TimeoutError", "ClientError", "KeyError"}
      THEN Raise("ValueError", <<"Fetching energy data for period ">>)
      ELSE outcome

\* prices from the response on: resp.json(), then the pair of series, the
\* electricity one first
LegacyPricesResult(response) ==
    CASE response.status \in {"ClientError", "TimeoutError"} ->
           LegacyExcept(Raise(response.status, <<>>))
      [] response.body = NoneV ->
           Raise("TypeError", <<"'NoneType' object is not subscriptable">>)
      [] OTHER ->
           LET electricity == LegacySeries(response.body, "marketPricesElectricity")
               gas == LegacySeries(response.body, "marketPricesGas")
           IN IF electricity.kind = "raise" THEN LegacyExcept(electricity)
              ELSE IF gas.kind = "raise" THEN LegacyExcept(gas)
              ELSE Return([t |-> "tuple", v |-> <<electricity.val, gas.val>>])

\* what the server may answer to the legacy client
LegacyResponses ==
    {Wire(st, NoneV) : st \in {"ClientError", "TimeoutError"}}
        \cup {Wire("200", NoneV), Wire("200", LegacyBody(AbsentV)),
              Wire("200", LegacyBody(NoneV))}
        \cup {Wire("200", LegacyBody(LegacyData(e, g))) :
                 e \in PriceLists, g \in PriceLists}

\* the dates a caller asks prices for; end_date defaults to None
LegacyDates == {TimeStr(TicksPerDay)}
LegacyEndDates == {NoneV, TimeStr(2 * TicksPerDay)}

\* frank_energie.FrankEnergie.prices(start_date, end_date): the session is
\* created when there is none, and the flag set with it; a session that was
\* closed refuses the post
LegacyPrices(start_date, end_date, response) ==
    LET created == legacy._session = "None"
        session == IF created THEN "own" ELSE legacy._session
        refused == session = "own" /\ legacy.closed > 0
    IN /\ legacy' =
            [legacy EXCEPT
                !._session = session,
                !._close_session = IF created THEN "True" ELSE @,
                !.op = "prices",
                !.variables = [startDate |-> start_date, endDate |-> end_date],
                !.response = IF refused THEN NoResponse ELSE response,
                !.outcome = IF refused
                              THEN Raise("RuntimeError", <<"Session is closed">>)
                              ELSE LegacyPricesResult(response)]
       /\ UNCHANGED <<clientVars, pureVars>>

\* frank_energie.FrankEnergie.close(): `self._session and self._close_session`
\* reads the flag whenever there is a session, then closes the session; the
\* reference and the flag stay as they are
LegacyClose ==
    /\ IF legacy._session = "None"
         THEN legacy' = [legacy EXCEPT !.op = "close", !.variables = NoneV,
                                       !.response = NoResponse,
                                       !.outcome = Return(NoneV)]
         ELSE IF legacy._close_session = "unset"
           THEN legacy' =
                  [legacy EXCEPT
                      !.op = "close", !.variables = NoneV, !.response = NoResponse,
                      !.outcome = Raise("AttributeError",
                                        <<"'FrankEnergie' object has no attribute '_close_session'">>)]
           ELSE /\ legacy.closed < MaxCloses /\ legacy.supplied_closed < MaxCloses
                /\ legacy' =
                     [legacy EXCEPT
                         !.closed = IF legacy._session = "own" THEN @ + 1 ELSE @,
                         !.supplied_closed =
                             IF legacy._session = "caller" THEN @ + 1 ELSE @,
                         !.op = "close", !.variables = NoneV,
                         !.response = NoResponse, !.outcome = Return(NoneV)]
    /\ UNCHANGED <<clientVars, pureVars>>

InitLegacy ==
    /\ __init__("None", NoneV, NoneV)
    /\ tasks = [t \in Tasks |-> Idle]
    /\ last = NoCall
    /\ fn = "" /\ arg = NoneV /\ out = NoOutcome
    /\ \E clientsession \in {"None", "caller"} : Legacy__init__(clientsession)

NextLegacy ==
    \/ \E start_date \in LegacyDates, end_date \in LegacyEndDates,
          response \in LegacyResponses :
            LegacyPrices(start_date, end_date, response)
    \/ LegacyClose

SpecLegacy == InitLegacy /\ [][NextLegacy]_vars

-----------------------------------------------------------------------------
(* Claims about the client *)

\* the operations that need a token
AuthOnlyOps ==
    {"renew_token", "month_summary", "invoices", "me", "user", "user_prices",
     "period_usage_and_costs", "smart_batteries", "smart_battery_sessions"}

\* C1: a call of an authenticated-only operation made while the client holds
\* no auth token (no Authentication stored, or one whose authToken is None)
\* raises AuthRequiredException, and no HTTP request is sent during the call.
C1_Original ==
    /\ \A t \in Tasks : tasks[t].op \in AuthOnlyOps => tasks[t].authenticated
    /\ (last.op \in AuthOnlyOps /\ ~last.authenticated)
       => /\ last.outcome.kind = "raise"
          /\ last.outcome.exc = "AuthRequiredException"
          /\ ~last.sent

\* data[key] of the body a call received, None when there is none
ResponseKey(response, key) ==
    IF response.body # NoneV /\ response.body.data.t = "dict"
      THEN Get(response.body.data, key)
      ELSE NoneV

\* the Authentication holding the tokens of a payload
PairOf(payload) ==
    Authentication(Get(payload, "authToken"), Get(payload, "refreshToken"))

\* C2: whenever login returns without raising, the returned value is a
\* non-null Authentication whose tokens are those of the response's
\* data.login, the same pair is stored in the client, and is_authenticated is
\* true afterwards.
C2_Original ==
    (last.op = "login" /\ last.outcome.kind = "return")
    => /\ last.outcome.val # NoneV
       /\ ResponseKey(last.response, "login").t = "dict"
       /\ last.outcome.val = PairOf(ResponseKey(last.response, "login"))
       /\ _auth = last.outcome.val
       /\ is_authenticated(_auth)

\* C3: login on an HTTP 200 response whose body is the empty JSON object
\* raises AuthException ("Unexpected response").
C3_Original ==
    (last.op = "login" /\ last.response = Wire("200", Body(AbsentV, AbsentV)))
    => last.outcome = Raise("AuthException", <<"Unexpected response">>)

\* the first error of the body a call received says message
ResponseError(response, message) ==
    /\ response.body # NoneV
    /\ Get(response.body, "errors").t = "list"
    /\ Len(Get(response.body, "errors").v) > 0
    /\ Get(response.body, "errors").v[1] = ErrorEntry(message)

\* what C4 says of renew_token apart from the pair it stores: the request's
\* variables are the stored pair, and an error list or an empty object raises
\* AuthException
C4_Common ==
    /\ \A t \in Tasks :
          tasks[t].op = "renew_token"
          => /\ _auth # NoneV
             /\ tasks[t].variables.authToken = _auth.authToken
             /\ tasks[t].variables.refreshToken = _auth.refreshToken
    /\ (last.op = "renew_token" /\ last.sent)
       => /\ (ResponseError(last.response, <<"user-error:password-invalid">>)
                \/ ResponseError(last.response, <<"help me">>))
             => last.outcome.kind = "raise" /\ last.outcome.exc = "AuthException"
          /\ last.response = Wire("200", Body(AbsentV, AbsentV))
             => last.outcome = Raise("AuthException", <<"Unexpected response">>)
          /\ last.outcome.kind = "return" => _auth = last.outcome.val

CallEnds == last' # last /\ last'.op # ""

\* C5: a public operation that ends by raising leaves the stored
\* authentication as it was: the step that ends the call does not change
\* _auth, and _auth changes only in a step that ends a call by returning.
C5_FailedCallKeepsAuth ==
    [][/\ (CallEnds /\ last'.outcome.kind = "raise") => _auth' = _auth
       /\ _auth' # _auth => (CallEnds /\ last'.outcome.kind = "return")]_vars

\* a login has failed on a response that carried a token pair under
\* data.login, and the client still holds the constructor's pair
C5_Witness ==
    /\ last.op = "login" /\ last.outcome.kind = "raise" /\ last.sent
    /\ Truthy(ResponseKey(last.response, "login"))
    /\ ResponseKey(last.response, "login").authToken # AbsentV
    /\ _auth = Authentication(Token(0, "ctor", "authToken"),
                              Token(0, "ctor", "refreshToken"))

\* C6: under any interleaving of login and renew_token calls, the stored
\* authToken and refreshToken come from one source: the constructor's
\* arguments, or one payload of one response.
C6_SingleSource ==
    (_auth # NoneV /\ _auth.authToken # NoneV /\ _auth.refreshToken # NoneV)
    => /\ _auth.authToken.src = _auth.refreshToken.src
       /\ _auth.authToken.key = _auth.refreshToken.key
       /\ _auth.authToken.field = "authToken"
       /\ _auth.refreshToken.field = "refreshToken"

\* a login has replaced the pair while a renew_token that was sent with the
\* constructor's pair is still awaiting its response
C6_Witness ==
    /\ _auth # NoneV /\ _auth.authToken # NoneV /\ _auth.refreshToken # NoneV
    /\ _auth.authToken.src = 1
    /\ \E t \in Tasks :
          /\ tasks[t].op = "renew_token"
          /\ tasks[t].variables.refreshToken = Token(0, "ctor", "refreshToken")
    /\ last.op = "login" /\ last.outcome.kind = "return"

\* C19: every session the client created is closed at most once, and
\* close() may be called any number of times: it never raises, and a close()
\* that follows a close() with no request in between closes nothing.
C19_ClosedOnce ==
    [][/\ \A i \in 1..Len(sessions') : sessions'[i] <= 1
       /\ (last' # last /\ last'.op = "close") =>
             /\ last'.outcome = Return(NoneV)
             /\ last.op = "close" => (sessions' = sessions /\ ~last'.closed)]_vars

\* the client has created two sessions and closed each of them, and the last
\* close() followed another and closed nothing
C19_Witness ==
    /\ Len(sessions) = 2
    /\ sessions[1] = 1 /\ sessions[2] = 1
    /\ last.op = "close" /\ ~last.closed

\* C20: no operation is retried: a call of a public operation sends at most
\* one HTTP POST, whether the request failed in transport, timed out, came
\* back with an error status, an error list or a body that does not parse.
C20_NoRetry ==
    /\ \A t \in Tasks : tasks[t].posts <= 1
    /\ last.posts <= 1
    /\ last.sent => last.posts = 1

\* a call whose request timed out has ended by raising, after one POST
C20_Witness ==
    /\ last.sent /\ last.response.status = "TimeoutError"
    /\ last.outcome.kind = "raise"
    /\ last.posts = 1

\* the request failed in transport, timed out, or came back with a body that
\* is no JSON, is JSON null, or is an object without "data"
RequestBroken(response) ==
    \/ response.status \in {"ClientError", "TimeoutError", "JSONDecodeError"}
    \/ response.body = NoneV
    \/ response.body.data = AbsentV

\* C21: a transport error, a timeout and a malformed response body each make
\* the operation raise a FrankEnergieException or a subclass of it, never a
\* raw KeyError, AttributeError or JSON decoding error.
C21_Original ==
    (last.sent /\ RequestBroken(last.response))
    => last.outcome.kind = "raise" /\ IsFrankEnergieException(last.outcome.exc)

\* C22: a request carries an Authorization: Bearer header exactly when the
\* client holds stored authentication at the moment it is sent, and its token
\* is the stored authToken, which is what the last successful login or
\* renew_token returned; prices() is never refused for want of
\* authentication, and without authentication its request has no header.
C22_BearerHeader ==
    /\ \A t \in Tasks :
          tasks[t].op # "idle" =>
              /\ tasks[t].headers # NoneV <=> _auth # NoneV
              /\ _auth # NoneV => tasks[t].headers.token = _auth.authToken
    /\ (last.op \in {"login", "renew_token"} /\ last.outcome.kind = "return")
          => last.outcome.val = _auth
    /\ last.op = "prices" => last.sent /\ last.posts = 1

\* prices() has been sent without a header by a client that holds no
\* authentication
C22_Witness ==
    /\ \E t \in Tasks : tasks[t].op = "prices" /\ tasks[t].headers = NoneV
    /\ _auth = NoneV

\* is_authenticated as the claims state it
HoldsToken(a) == a # NoneV /\ a.authToken # NoneV

\* C23: is_authenticated is false on a client constructed without tokens and
\* true on one constructed with an auth token; in every state it equals (an
\* Authentication is stored and its authToken is not None), and only a login
\* or renew_token that returns changes its value.
C23_IsAuthenticated ==
    /\ _auth = NoneV => ~is_authenticated(_auth)
    /\ (_auth # NoneV /\ _auth.authToken # NoneV) => is_authenticated(_auth)
    /\ [][/\ is_authenticated(_auth') = HoldsToken(_auth')
          /\ is_authenticated(_auth') # is_authenticated(_auth)
                => /\ CallEnds
                   /\ last'.op \in {"login", "renew_token"}
                   /\ last'.outcome.kind = "return"]_vars

\* a renew_token that returned a pair without authToken has made
\* is_authenticated false
C23_Witness ==
    /\ last.op = "renew_token" /\ last.outcome.kind = "return"
    /\ last.authenticated
    /\ _auth # NoneV /\ ~is_authenticated(_auth)

\* C25: smart_battery_sessions on a client that holds a token sends one
\* SmartBatterySessions request and, on an error-free response with data,
\* returns a non-null SmartBatterySessions object.
C25_Original ==
    (last.op = "smart_battery_sessions" /\ last.authenticated)
    => /\ last.sent /\ last.posts = 1
       /\ (last.response.status = "200" /\ last.response.body # NoneV
             /\ ~Truthy(Get(last.response.body, "errors"))
             /\ last.response.body.data # AbsentV /\ last.response.body.data # NoneV)
          => (last.outcome.kind = "return" /\ last.outcome.val # NoneV)

\* C26: login with an empty or missing username or password raises
\* ValueError before a request is sent or a session created; the stored
\* authentication and the session fields stay as they were.
C26_LoginValueError ==
    [][\A username \in Credentials, password \in Credentials :
          (login(Caller, username, password)
              /\ (username \in {Str(""), NoneV} \/ password \in {Str(""), NoneV}))
          => /\ last'.outcome.kind = "raise" /\ last'.outcome.exc = "ValueError"
             /\ ~last'.sent /\ last'.posts = 0
             /\ tasks' = tasks
             /\ _auth' = _auth /\ _session' = _session
             /\ _close_session' = _close_session /\ sessions' = sessions]_vars

\* a login without password has raised ValueError on a client that has no
\* session and no authentication
C26_Witness ==
    /\ last.op = "login" /\ last.outcome.kind = "raise"
    /\ last.outcome.exc = "ValueError"
    /\ _session = "None" /\ sessions = <<>> /\ ~_close_session
    /\ _auth = NoneV

\* C29: _query has two outcomes for every HTTP response: it returns the
\* parsed response object or it raises; it never returns None, not for a
\* successful status other than 200 either.
C29_Original ==
    last.sent =>
        LET q == QueryResult(last.response) IN
        q.kind = "raise" \/ (q.kind = "return" /\ q.val # NoneV)

\* C27: the client never closes a session the caller supplied: on a client
\* constructed with a caller's session, after any requests and close() calls,
\* that session is still the one in use, the client has not closed it, and
\* the close flag is false.
C27_CallerSessionKept ==
    supplied.session = "caller"
    => /\ supplied.closed = 0
       /\ ~_close_session
       /\ _session = "caller"

\* on a client constructed with a caller's session a login has stored the
\* server's tokens, and a close() has returned since
C27_Witness ==
    /\ supplied.session = "caller"
    /\ last.op = "close" /\ ~last.closed
    /\ _auth # NoneV /\ _auth.authToken = Token(1, "login", "authToken")

\* the close flag is set only while the session in use is one the client
\* created and has not closed
FlagMeansOwnOpen ==
    _close_session
    => /\ _session = "own"
       /\ Len(sessions) >= 1
       /\ sessions[Len(sessions)] = 0

\* C28: in every state the close flag is true only if the current session
\* was created by the client and is not yet closed; a request issued while
\* the client holds no session creates a fresh one and sets the flag, and a
\* close() with the flag set closes that latest session and clears the flag.
C28_CloseFlag ==
    /\ FlagMeansOwnOpen
    /\ [][/\ FlagMeansOwnOpen'
          /\ (_session = "None" /\ \E t \in Tasks : tasks'[t].posts > tasks[t].posts)
                => /\ sessions' = Append(sessions, 0)
                   /\ _session' = "own" /\ _close_session'
          /\ (last' # last /\ last'.op = "close" /\ _close_session)
                => /\ sessions' = [sessions EXCEPT ![Len(sessions)] = 1]
                   /\ last'.closed /\ ~_close_session']_vars

\* the client has closed its first session, created a second one for a later
\* request, and closed that one too
C28_Witness ==
    /\ sessions = <<1, 1>>
    /\ last.op = "close" /\ last.closed
    /\ _session = "None" /\ ~_close_session

-----------------------------------------------------------------------------
(* Claims about _handle_errors and from_dict, under SpecPure *)

Applied(f) == fn = f /\ out # NoOutcome

\* the error list _handle_errors was given, <<>> when it has none
ArgErrors ==
    IF arg # NoneV /\ Get(arg, "errors").t = "list" THEN Get(arg, "errors").v ELSE <<>>

FirstIs(message) ==
    Len(ArgErrors) > 0 /\ HasKey(ArgErrors[1], "message")
        /\ ArgErrors[1].message = message

FirstStartsWith(head) ==
    Len(ArgErrors) > 0 /\ HasKey(ArgErrors[1], "message")
        /\ StartsWith(ArgErrors[1].message, head)

\* a message none of the comparisons of _handle_errors matches
Unrecognized(message) ==
    /\ ~Equals(message, "user-error:password-invalid")
    /\ ~Equals(message, "user-error:auth-not-authorised")
    /\ ~Equals(message, "user-error:auth-required")
    /\ ~Equals(message, "Graphql validation error")
    /\ ~Equals(message, "user-error:smart-trading-not-enabled")
    /\ ~StartsWith(message, "No marketprices found for segment")
    /\ ~StartsWith(message, "No connections found for user")

\* C7: _handle_errors classifies a non-empty error list by the message of its
\* first error: password-invalid and auth-not-authorised raise AuthException,
\* auth-required raises AuthRequiredException, smart-trading-not-enabled raises
\* SmartTradingNotEnabledException, "Graphql validation error" raises
\* FrankEnergieException, and a message outside the known codes raises
\* AuthException("Authorization error").
C7_Classification ==
    Applied("_handle_errors") =>
        /\ FirstIs(<<"user-error:password-invalid">>)
              => out.kind = "raise" /\ out.exc = "AuthException"
        /\ FirstIs(<<"user-error:auth-not-authorised">>)
              => out.kind = "raise" /\ out.exc = "AuthException"
        /\ FirstIs(<<"user-error:auth-required">>)
              => out.kind = "raise" /\ out.exc = "AuthRequiredException"
        /\ FirstIs(<<"user-error:smart-trading-not-enabled">>)
              => out.kind = "raise" /\ out.exc = "SmartTradingNotEnabledException"
        /\ FirstIs(<<"Graphql validation error">>)
              => out.kind = "raise" /\ out.exc = "FrankEnergieException"
        /\ (Len(ArgErrors) > 0 /\ HasKey(ArgErrors[1], "message")
                /\ Unrecognized(ArgErrors[1].message))
              => out = Raise("AuthException", <<"Authorization error">>)

\* every class of C7 has been raised from a list of two errors whose first
\* error decides: here the unrecognized message before a known one
C7_Witness ==
    /\ Applied("_handle_errors")
    /\ Len(ArgErrors) = 2
    /\ FirstIs(<<"user-error:password-invalid", " X">>)
    /\ ArgErrors[2] = ErrorEntry(<<"user-error:auth-required">>)
    /\ out = Raise("AuthException", <<"Authorization error">>)

\* C8 as stated: an error list that contains a "No marketprices found for
\* segment ..." or "No connections found for user ..." message makes
\* _handle_errors raise a FrankEnergieException; it does not return normally.
C8_Original ==
    (Applied("_handle_errors")
        /\ (FirstStartsWith("No marketprices found for segment")
              \/ FirstStartsWith("No connections found for user")))
    => out.kind = "raise" /\ IsFrankEnergieException(out.exc)

\* C8 amended: when the first error's message starts with "No connections
\* found for user", _handle_errors raises FrankEnergieException; when it
\* starts with "No marketprices found for segment", _handle_errors returns
\* normally, whatever errors follow it.
C8_Amended ==
    Applied("_handle_errors") =>
        /\ FirstStartsWith("No connections found for user")
              => out.kind = "raise" /\ out.exc = "FrankEnergieException"
        /\ FirstStartsWith("No marketprices found for segment")
              => out = Return(NoneV)

C8_Witness ==
    /\ Applied("_handle_errors")
    /\ FirstIs(<<"No marketprices found for segment", " X">>)
    /\ Len(ArgErrors) = 1
    /\ out = Return(NoneV)

\* a message that makes _handle_errors raise when it is the only error
RaisingEntry(error) ==
    HasKey(error, "message")
        /\ ~StartsWith(error.message, "No marketprices found for segment")

\* C9: _handle_errors inspects every error of the list: if any entry at any
\* position carries a raising code it raises, and it returns normally only
\* when the list is absent or empty.
C9_Original ==
    Applied("_handle_errors") =>
        /\ (\E i \in 1..Len(ArgErrors) : RaisingEntry(ArgErrors[i]))
              => out.kind = "raise"
        /\ out.kind = "return" => Len(ArgErrors) = 0

\* the payload's error list is absent, null or empty
NoErrors(body) == ~Truthy(Get(body, "errors"))

\* the key the model reads is absent or null, the body's data absent or null
\* included
KeyMissing(body, key) ==
    \/ body.data = AbsentV
    \/ body.data = NoneV
    \/ Get(body.data, key) = NoneV

ExpectedKeyMissing ==
    CASE fn = "Authentication.from_dict" ->
           KeyMissing(arg, "login") /\ KeyMissing(arg, "renewToken")
      [] fn = "User.from_dict" -> KeyMissing(arg, "me")
      [] fn = "MonthSummary.from_dict" -> KeyMissing(arg, "monthSummary")
      [] fn = "Invoices.from_dict" -> KeyMissing(arg, "invoices")
      [] OTHER -> FALSE

ModelException ==
    IF fn = "Authentication.from_dict" THEN "AuthException" ELSE "RequestException"

\* C10: from_dict of Authentication, User, MonthSummary and Invoices on a
\* payload without errors whose expected data key is absent or null, {} and
\* {"data": null} included, raises the model's "Unexpected response" error.
C10_Original ==
    (fn \in ModelFunctions /\ out # NoOutcome /\ NoErrors(arg) /\ ExpectedKeyMissing)
    => out = Raise(ModelException, <<"Unexpected response">>)

\* the body holds neither prices nor anything else under data, or one of
\* the two price lists is missing or null
PricesMissing(body) ==
    \/ body.data = AbsentV
    \/ body.data = NoneV
    \/ ~Truthy(body.data)
    \/ Get(body.data, "marketPricesElectricity") = NoneV
    \/ Get(body.data, "marketPricesGas") = NoneV

\* C11: MarketPrices.from_dict on a payload without errors raises
\* RequestException ("Unexpected response") whenever data is absent, null or
\* empty, and also whenever marketPricesElectricity or marketPricesGas is
\* missing or null; it never returns a MarketPrices built from missing data.
C11_Original ==
    (Applied("MarketPrices.from_dict") /\ NoErrors(arg) /\ PricesMissing(arg))
    => out = Raise("RequestException", <<"Unexpected response">>)

\* the model whose from_dict was applied raises AuthException for
\* Authentication and RequestException otherwise
ErrorOf(f) == IF f = "Authentication.from_dict" THEN "AuthException" ELSE "RequestException"

\* C12: from_dict of Authentication, User, MonthSummary, Invoices and
\* MarketPrices on a payload whose error list is not empty raises the model's
\* error with the message of the first error, whatever data the payload holds.
C12_ErrorsFirst ==
    (fn \in ModelFunctions \cup {"MarketPrices.from_dict"} /\ out # NoOutcome
        /\ Len(ArgErrors) > 0 /\ HasKey(ArgErrors[1], "message"))
    => out = Raise(ErrorOf(fn), ArgErrors[1].message)

\* MarketPrices.from_dict has raised the first error's message on a payload
\* that also holds both price lists
C12_Witness ==
    /\ Applied("MarketPrices.from_dict")
    /\ FirstIs(<<"help me">>)
    /\ arg.data # AbsentV /\ arg.data # NoneV
    /\ Get(arg.data, "marketPricesElectricity") = List(<<HourDict>>)
    /\ Get(arg.data, "marketPricesGas") = List(<<HourDict>>)
    /\ out = Raise("RequestException", <<"help me">>)

\* the payload holds an invoices object, some of whose sub-periods are
\* missing or null
SubPeriodMissing(body) ==
    /\ body.data # AbsentV /\ body.data # NoneV
    /\ Truthy(Get(body.data, "invoices"))
    /\ \E k \in {"previousPeriodInvoice", "currentPeriodInvoice",
                 "upcomingPeriodInvoice"} :
          Get(Get(body.data, "invoices"), k) = NoneV

\* C13: Invoices.from_dict on a payload whose invoices object is present and
\* in which any of previousPeriodInvoice, currentPeriodInvoice and
\* upcomingPeriodInvoice is null or missing returns an Invoices object and
\* does not raise.
C13_Original ==
    (Applied("Invoices.from_dict") /\ NoErrors(arg) /\ SubPeriodMissing(arg))
    => out.kind = "return"

-----------------------------------------------------------------------------
(* Claims about PriceData, under SpecPrices *)

\* the series the property was read from, and the instant it was read at
Series == arg.self.price_data
Now == arg.now

\* the entry's interval holds the instant: from <= now < till
Contains(hour, now) == hour.date_from <= now /\ now < hour.date_till

\* each entry is a non-empty interval that begins where the one before ends
Contiguous(hours) ==
    /\ \A i \in 1..Len(hours) : hours[i].date_from < hours[i].date_till
    /\ \A i \in 1..(Len(hours) - 1) : hours[i].date_till = hours[i + 1].date_from

\* C14: current_hour returns an entry of the series whose interval holds the
\* clock time, from <= now < till, whenever there is one (the first of them);
\* in a series of contiguous intervals at most one entry qualifies, and at
\* the instant where one entry ends and the next begins the later one is
\* returned.
C14_CurrentHour ==
    Applied("PriceData.current_hour") =>
        LET holding == {i \in 1..Len(Series) : Contains(Series[i], Now)} IN
        /\ holding # {} =>
              \E i \in holding :
                  /\ out = Return(Series[i])
                  /\ \A j \in holding : i <= j
        /\ out.kind = "return" => holding # {}
        /\ Contiguous(Series) => Cardinality(holding) <= 1
        /\ \A i \in 1..(Len(Series) - 1) :
              (Contiguous(Series) /\ Series[i].date_till = Now)
                  => out = Return(Series[i + 1])

\* the clock stands where the first of two contiguous entries ends, and the
\* second entry was returned
C14_Witness ==
    /\ Applied("PriceData.current_hour")
    /\ Len(Series) = 2 /\ Contiguous(Series)
    /\ Series[1].date_till = Now
    /\ out = Return(Series[2])

\* the start of the UTC day of an instant
DayOf(now) == TicksPerDay * (now \div TicksPerDay)

\* the entry starts no earlier than this UTC midnight and ends no later than
\* the next
WithinDay(hour, now) ==
    hour.date_from >= DayOf(now) /\ hour.date_till <= DayOf(now) + TicksPerDay

\* the positions of the series whose entries lie within the clock's day
TodayIndexes == {i \in 1..Len(Series) : WithinDay(Series[i], Now)}

\* the k-th smallest of a set of positions
Nth(indexes, k) ==
    CHOOSE i \in indexes : Cardinality({j \in indexes : j < i}) = k - 1

\* the entries of today in the order of the series
TodayEntries == [k \in 1..Cardinality(TodayIndexes) |-> Series[Nth(TodayIndexes, k)]]

\* C15: today returns, in series order, exactly the entries with from >= the
\* start of the current UTC day and till <= the start of the next UTC day: an
\* entry that starts before midnight or ends after the next midnight is left
\* out, one that ends exactly at the next midnight is kept.
C15_Today ==
    Applied("PriceData.today") => out = Return(TodayEntries)

\* a series of three: an entry over the whole day, kept; one that started the
\* day before and one that ends the day after, both left out
C15_Witness ==
    /\ Applied("PriceData.today")
    /\ Len(Series) = 3
    /\ Series[1].date_from < DayOf(Now)
    /\ Series[2].date_from = DayOf(Now)
    /\ Series[2].date_till = DayOf(Now) + TicksPerDay
    /\ Series[3].date_from >= DayOf(Now)
    /\ Series[3].date_till > DayOf(Now) + TicksPerDay
    /\ out = Return(<<Series[2]>>)

\* the all-in price of an entry, in units of 0.0001
Total(hour) ==
    hour.market_price.n + hour.market_price_tax.n + hour.sourcing_markup_price.n
        + hour.energy_tax_price.n

\* the sum of the totals of today's entries
RECURSIVE SumOf(_)
SumOf(hours) == IF hours = <<>> THEN 0 ELSE Total(Head(hours)) + SumOf(Tail(hours))

\* what C16 says of today_min and today_max: an entry of today whose total is
\* the least (the greatest) of today's, the first such
C16_MinMax ==
    /\ (Applied("PriceData.today_min") /\ TodayIndexes # {}) =>
          \E k \in 1..Len(TodayEntries) :
              /\ out = Return(TodayEntries[k])
              /\ \A j \in 1..Len(TodayEntries) :
                    /\ Total(TodayEntries[k]) <= Total(TodayEntries[j])
                    /\ j < k => Total(TodayEntries[k]) < Total(TodayEntries[j])
    /\ (Applied("PriceData.today_max") /\ TodayIndexes # {}) =>
          \E k \in 1..Len(TodayEntries) :
              /\ out = Return(TodayEntries[k])
              /\ \A j \in 1..Len(TodayEntries) :
                    /\ Total(TodayEntries[k]) >= Total(TodayEntries[j])
                    /\ j < k => Total(TodayEntries[k]) > Total(TodayEntries[j])

\* today_avg lies between the least and the greatest total of today;
\* out.val counts units of 0.00001
AvgWithinBounds ==
    \A k \in 1..Len(TodayEntries) :
        \E i, j \in 1..Len(TodayEntries) :
            /\ 10 * Total(TodayEntries[i]) <= out.val
            /\ out.val <= 10 * Total(TodayEntries[j])

\* C16 as stated: today_min and today_max return the first entry of today
\* with the least and the greatest total, and today_avg is the mean of the
\* totals of today, so today_min.total <= today_avg <= today_max.total.
C16_Original ==
    /\ C16_MinMax
    /\ (Applied("PriceData.today_avg") /\ TodayIndexes # {}) =>
          /\ out.kind = "return"
          /\ out.val * Len(TodayEntries) = 10 * SumOf(TodayEntries)
          /\ AvgWithinBounds

\* C16 amended: today_avg is the mean of the totals of today rounded to 5
\* decimals, the nearest multiple of 0.00001; it still lies between
\* today_min.total and today_max.total.
C16_Amended ==
    /\ C16_MinMax
    /\ (Applied("PriceData.today_avg") /\ TodayIndexes # {}) =>
          /\ out.kind = "return"
          /\ 2 * (out.val * Len(TodayEntries) - 10 * SumOf(TodayEntries))
                 <= Len(TodayEntries)
          /\ 2 * (10 * SumOf(TodayEntries) - out.val * Len(TodayEntries))
                 <= Len(TodayEntries)
          /\ AvgWithinBounds

\* today_avg was read from three entries of today whose mean is no multiple
\* of 0.00001, and the multiple below it was returned
C16_Witness ==
    /\ Applied("PriceData.today_avg")
    /\ Cardinality(TodayIndexes) = 3
    /\ out.kind = "return"
    /\ out.val * 3 < 10 * SumOf(TodayEntries)
    /\ (out.val + 1) * 3 > 10 * SumOf(TodayEntries)

\* C17: when no entry of the series is of today, the empty series included,
\* today_min, today_max and today_avg each fail with the empty-sequence
\* error (a ValueError); none returns a value and all three fail alike.
C17_Original ==
    (fn \in {"PriceData.today_min", "PriceData.today_max", "PriceData.today_avg"}
        /\ out # NoOutcome /\ TodayIndexes = {})
    => out.kind = "raise" /\ out.exc = "ValueError"

\* the positions of the series whose entries start after the clock's hour
FutureIndexes == {i \in 1..Len(Series) : Series[i].date_from > Now}

\* the entries that start after the clock's hour, in the order of the series
FutureEntries ==
    [k \in 1..Cardinality(FutureIndexes) |-> Series[Nth(FutureIndexes, k)]]

\* C24: get_future_prices returns, in series order, exactly the entries whose
\* start lies after the current clock hour, across days as well: an entry of
\* tomorrow at an earlier hour of the day is included, an entry of yesterday
\* at a later hour of the day is left out, and the entry of the current hour
\* is never returned.
C24_Original ==
    Applied("PriceData.get_future_prices") => out = Return(FutureEntries)

\* the series of a and of b
SeriesA == arg.self.price_data
SeriesB == arg.b.price_data

\* C18: (a + b).all is the entries of a in their order followed by the
\* entries of b in their order, so its length is the sum of the two lengths;
\* also when a or b was constructed without data.
C18_Add ==
    Applied("PriceData.__add__") =>
        /\ out.kind = "return"
        /\ Len(all(out.val)) = Len(SeriesA) + Len(SeriesB)
        /\ \A i \in 1..Len(SeriesA) : all(out.val)[i] = SeriesA[i]
        /\ \A j \in 1..Len(SeriesB) : all(out.val)[Len(SeriesA) + j] = SeriesB[j]

\* a of two different entries was added to b of a third
C18_Witness ==
    /\ Applied("PriceData.__add__")
    /\ Len(SeriesA) = 2 /\ Len(SeriesB) = 1
    /\ SeriesA[1] # SeriesA[2] /\ SeriesB[1] # SeriesA[1] /\ SeriesB[1] # SeriesA[2]
    /\ Len(all(out.val)) = 3

-----------------------------------------------------------------------------
(* Claims about the legacy client, under SpecLegacy *)

\* C30: in the legacy client close() is safe in every state: on a client
\* constructed with a caller's session, before any prices() call, or
\* repeatedly, it raises nothing and closes only a session the client
\* created itself.
C30_Original ==
    /\ legacy.op = "close" => legacy.outcome.kind = "return"
    /\ legacy.supplied_closed = 0

====
